---------------------------- MODULE Spec2Model ----------------------------
(***************************************************************************)
(* A model of redash/query_runner/iql.py: the comment metadata parser,     *)
(* the schema flattener, the field resolver, run_query and get_schema.     *)
(*                                                                         *)
(* Text is modelled as a sequence of one-character strings, so that the    *)
(* Python string methods (find, strip, lstrip, rstrip, split) are computed *)
(* character by character as the interpreter computes them.                *)
(***************************************************************************)
EXTENDS Integers, Sequences, FiniteSets, TLC

VARIABLES
    string,      \* parse_and_remove_comments: the raw query text
    p_pc,        \* parse_and_remove_comments: "start" | "done"
    p_metadata,  \* parse_and_remove_comments: the returned metadata dict
    p_query,     \* parse_and_remove_comments: the returned clean query
    schema,      \* flatten_schema: the schema tree, a dict holding 'children'
    f_pc,        \* flatten_schema: "start" | "done"
    f_fields,    \* flatten_schema: the list of Field objects returned
    f_exc,       \* flatten_schema: "none", or the exception the call raised
    self,        \* Field.retrieve: the Field object (path, iql_type, name)
    data,        \* Field.retrieve: the row passed in
    v_pc,        \* Field.retrieve: "start" | "done"
    v_ret,       \* Field.retrieve: the value returned
    v_exc,       \* Field.retrieve: "none", or the exception the call raised
    r_text,      \* run_query: the query text passed in
    r_pc,        \* run_query: "start" | "rows" | "returned" | "raised"
    r_request,   \* run_query: the request posted (params and query)
    r_resp,      \* run_query: the response of the remote service
    r_fields,    \* run_query: fields, the Field objects of the response schema
    r_rows,      \* run_query: rows, the flattened rows built so far
    r_ret,       \* run_query: the tuple returned
    r_exc,       \* run_query: "none", or the exception the call raised
    g_pc,        \* get_schema: "start" | "submit" | "iterate" | "shutdown" |
                 \*             "returned" | "raised"
    g_ecs,       \* get_schema: ecs, the dataset names of the listing
    g_futures,   \* get_schema: the futures submitted, in submission order
    g_completed, \* get_schema: the futures that are finished, in completion order
    g_early,     \* get_schema: the futures finished when as_completed was called
    g_taken,     \* get_schema: the futures as_completed has yielded, in order
    g_ret,       \* get_schema: ret, the catalog built so far
    g_exc        \* get_schema: "none", or the exception the call raises

vars == <<string, p_pc, p_metadata, p_query, schema, f_pc, f_fields, f_exc,
          self, data, v_pc, v_ret, v_exc,
          r_text, r_pc, r_request, r_resp, r_fields, r_rows, r_ret, r_exc,
          g_pc, g_ecs, g_futures, g_completed, g_early, g_taken, g_ret, g_exc>>

schemaVars == <<g_pc, g_ecs, g_futures, g_completed, g_early, g_taken, g_ret, g_exc>>

runVars == <<r_text, r_pc, r_request, r_resp, r_fields, r_rows, r_ret, r_exc>>

retrieveVars == <<self, data, v_pc, v_ret, v_exc>>

flattenVars == <<schema, f_pc, f_fields, f_exc>>

parseVars == <<string, p_pc, p_metadata, p_query>>

(***************************************************************************)
(* Bounds of the model.                                                    *)
(***************************************************************************)
MaxStrLen == 4

MaxDepth == 2

MaxRows == 3

MaxDatasets == 3

(***************************************************************************)
(* Python str and dict primitives.                                         *)
(***************************************************************************)
Whitespace == {" "}

Min(S) == CHOOSE x \in S : \A y \in S : x <= y

\* s.find(pat): the lowest 0-based index where pat occurs in s, or -1.
PyFind(s, pat) ==
    LET hits == {i \in 0..(Len(s) - Len(pat)) : SubSeq(s, i + 1, i + Len(pat)) = pat}
    IN  IF hits = {} THEN -1 ELSE Min(hits)

\* s.lstrip(chars): drops every leading character that belongs to chars.
RECURSIVE PyLStrip(_, _)
PyLStrip(s, chars) ==
    IF Len(s) > 0 /\ Head(s) \in chars THEN PyLStrip(Tail(s), chars) ELSE s

\* s.rstrip(chars): drops every trailing character that belongs to chars.
RECURSIVE PyRStrip(_, _)
PyRStrip(s, chars) ==
    IF Len(s) > 0 /\ s[Len(s)] \in chars
    THEN PyRStrip(SubSeq(s, 1, Len(s) - 1), chars)
    ELSE s

\* s.strip(): drops leading and trailing whitespace.
PyStrip(s) == PyRStrip(PyLStrip(s, Whitespace), Whitespace)

\* s.split(c): the pieces of s between the occurrences of the character c.
RECURSIVE PySplit(_, _)
PySplit(s, c) ==
    LET i == PyFind(s, <<c>>)
    IN  IF i < 0
        THEN <<s>>
        ELSE <<SubSeq(s, 1, i)>> \o PySplit(SubSeq(s, i + 2, Len(s)), c)

\* s.split(c, 1): s cut at the first occurrence of c (c occurs in s).
PySplitOnce(s, c) ==
    LET i == PyFind(s, <<c>>)
    IN  <<SubSeq(s, 1, i), SubSeq(s, i + 2, Len(s))>>

\* c in s
PyContains(s, c) == \E i \in 1..Len(s) : s[i] = c

EmptyDict == [k \in {} |-> <<>>]

\* d[k] = v
DictSet(d, k, v) == [x \in (DOMAIN d) \cup {k} |-> IF x = k THEN v ELSE d[x]]

(***************************************************************************)
(* parse_comment and IQL.parse_and_remove_comments.                        *)
(***************************************************************************)
CommentChars == {"/", "*"}

CloseToken == <<"*", "/">>

Terminator == {";"}

parse_comment(comment_string) ==
    LET inner == PyRStrip(PyLStrip(PyStrip(comment_string), CommentChars), CommentChars)
        items == PySplit(inner, ",")
    IN  [i \in 1..Len(items) |-> PyStrip(items[i])]

\* The body of the for loop over the items of one comment (iql.py 145-148).
RECURSIVE StoreItems(_, _)
StoreItems(metadata, items) ==
    IF Len(items) = 0
    THEN metadata
    ELSE LET item == Head(items)
             kv   == PySplitOnce(item, ":")
         IN  IF PyContains(item, ":")
             THEN StoreItems(DictSet(metadata, PyStrip(kv[1]), PyStrip(kv[2])), Tail(items))
             ELSE StoreItems(metadata, Tail(items))

\* The while loop (iql.py 138-148): the metadata and the text left after it.
RECURSIVE ScanComments(_, _)
ScanComments(query, metadata) ==
    LET comment_index == PyFind(query, CloseToken)
    IN  IF comment_index < 0
        THEN [metadata |-> metadata, query |-> query]
        ELSE LET comment == SubSeq(query, 1, comment_index + 2)
                 rest    == SubSeq(query, comment_index + 3, Len(query))
             IN  ScanComments(rest, StoreItems(metadata, parse_comment(comment)))

\* A variant that removes at most one trailing terminator.
StripOneTerminator(query) ==
    LET t == PyStrip(query)
    IN  IF Len(t) > 0 /\ t[Len(t)] \in Terminator THEN SubSeq(t, 1, Len(t) - 1) ELSE t

\* The final expression (iql.py 150): query.strip().rstrip(';').
StripTerminator(query) == PyRStrip(PyStrip(query), Terminator)

parse_and_remove_comments(s) ==
    LET r == ScanComments(s, EmptyDict)
    IN  [metadata |-> r.metadata, query |-> StripTerminator(r.query)]

(***************************************************************************)
(* The query texts the parser is run on.                                   *)
(***************************************************************************)
Alphabet == {"/", "*", ":", ",", " ", ";", "a"}

RECURSIVE StringsOfLen(_)
StringsOfLen(n) ==
    IF n = 0
    THEN {<<>>}
    ELSE {<<c>> \o s : c \in Alphabet, s \in StringsOfLen(n - 1)}

StringsUpTo(max) == UNION {StringsOfLen(n) : n \in 0..max}

OpenToken == <<"/", "*">>

\* Bodies that follow the leading comment blocks.
Bodies ==
    { <<>>,
      <<"a">>,
      <<" ", "a", " ">>,
      <<"a", ";">>,
      <<"a", ";", ";">>,
      <<"a", " ", ";">> }

\* Interiors of the blocks of a two-block query.
Interiors ==
    { <<"a", ":", "a">>,
      <<" ", "a", ":", " ", ",", "a">>,
      <<"a", ":", ",", "a", ":", "a", "a">>,
      <<"a", "a", ":", "a", ":", "a">> }

Block(interior) == OpenToken \o interior \o CloseToken

\* Any text of at most max characters, one block of such an interior and a
\* body, or two blocks and a body.
QueriesUpTo(max) ==
    StringsUpTo(max)
    \cup {Block(i) \o b : i \in StringsUpTo(max), b \in Bodies}
    \cup {Block(i) \o <<" ">> \o Block(j) \o <<" ">> \o b :
              i \in Interiors, j \in Interiors, b \in Bodies}

(***************************************************************************)
(* TYPES_MAP, Field.__init__, IQL._flatten_schema and IQL.flatten_schema.  *)
(*                                                                         *)
(* A schema node is a record: name (text), fieldType (a tag, "None" when   *)
(* the key is absent or null), multiplicity (a tag, "ABSENT" when the node *)
(* has no such key) and children (a list, empty when the key is absent:    *)
(* field.get('children', [])).                                             *)
(***************************************************************************)
TYPES_MAP ==
    [t \in {"BOOL", "NUMBER", "STRING", "TIMESTAMP", "INFERRED_FLOAT",
            "INFERRED_STRING", "FT_DNE", "None"} |->
        CASE t = "BOOL"            -> "TYPE_BOOLEAN"
          [] t = "NUMBER"          -> "TYPE_INTEGER"
          [] t = "STRING"          -> "TYPE_STRING"
          [] t = "TIMESTAMP"       -> "TYPE_DATETIME"
          [] t = "INFERRED_FLOAT"  -> "TYPE_FLOAT"
          [] t = "INFERRED_STRING" -> "TYPE_STRING"
          [] t = "FT_DNE"          -> "TYPE_STRING"
          [] t = "None"            -> "TYPE_STRING"]

\* The backquote character (a TLA+ string cannot hold it).
BackQuote == "BQ"

\* The element of the list comprehension of line 28: x between backquotes if
\* ' ' in x, else x.
Quote(x) == IF PyContains(x, " ") THEN <<BackQuote>> \o x \o <<BackQuote>> ELSE x

\* '.'.join(parts)
RECURSIVE PyJoinDot(_)
PyJoinDot(parts) ==
    IF Len(parts) = 0 THEN <<>>
    ELSE IF Len(parts) = 1 THEN Head(parts)
    ELSE Head(parts) \o <<".">> \o PyJoinDot(Tail(parts))

\* all_names = defaultdict(lambda: 0): a dict that holds no key until one is read
\* or written by subscript; "in" reads nothing.
NoNames == [k \in {} |-> 0]

\* Field.__init__: the object built, the counter afterwards, and the exception
\* raised.  On a name the counter holds, line 31 calls the format string as if
\* it were a function, which raises TypeError.
Field(path, iql_type, all_names) ==
    LET name == PyJoinDot([i \in 1..Len(path) |-> Quote(path[i])])
        obj  == [path |-> path, iql_type |-> iql_type, name |-> name]
    IN  IF name \in DOMAIN all_names
        THEN [exc |-> "TypeError", fields |-> <<>>,
              all_names |-> DictSet(all_names, name, all_names[name] + 1)]
        ELSE [exc |-> "none", fields |-> <<obj>>, all_names |-> all_names]

RECURSIVE _flatten_schema(_, _, _)

\* A variant of the loop body that expands a ONE_TO_MANY entity like any other.
FlattenNodeExpandingCollections(field, path, all_names) ==
    LET field_type == field.fieldType
        full_path  == path \o <<field.name>>
    IN  IF field_type \in DOMAIN TYPES_MAP
        THEN Field(full_path, field_type, all_names)
        ELSE IF field_type = "ENTITY" /\ field.multiplicity = "ABSENT"
        THEN [exc |-> "KeyError", fields |-> <<>>, all_names |-> all_names]
        ELSE IF field_type = "ENTITY"
        THEN _flatten_schema(field.children, full_path, all_names)
        ELSE [exc |-> "Exception", fields |-> <<>>, all_names |-> all_names]

\* The body of the for loop of _flatten_schema (iql.py 103-117) for one node:
\* the Fields it appends, the counter afterwards, the exception raised.
FlattenNode(field, path, all_names) ==
    LET field_type == field.fieldType
        full_path  == path \o <<field.name>>
    IN  IF field_type \in DOMAIN TYPES_MAP
        THEN Field(full_path, field_type, all_names)
        ELSE IF field_type = "ENTITY" /\ field.multiplicity = "ABSENT"
        THEN \* field['multiplicity'] on a dict without the key
             [exc |-> "KeyError", fields |-> <<>>, all_names |-> all_names]
        ELSE IF field_type = "ENTITY" /\ field.multiplicity = "ONE_TO_MANY"
        THEN Field(full_path, "INFERRED_STRING", all_names)
        ELSE IF field_type = "ENTITY"
        THEN _flatten_schema(field.children, full_path, all_names)
        ELSE [exc |-> "Exception", fields |-> <<>>, all_names |-> all_names]

_flatten_schema(nodes, path, all_names) ==
    IF Len(nodes) = 0
    THEN [exc |-> "none", fields |-> <<>>, all_names |-> all_names]
    ELSE LET one == FlattenNode(Head(nodes), path, all_names)
         IN  IF one.exc # "none"
             THEN one
             ELSE LET rest == _flatten_schema(Tail(nodes), path, one.all_names)
                  IN  IF rest.exc # "none"
                      THEN rest
                      ELSE [exc |-> "none", fields |-> one.fields \o rest.fields,
                            all_names |-> rest.all_names]

flatten_schema(tree) == _flatten_schema(tree.children, <<>>, NoNames)

(***************************************************************************)
(* The schema trees the flattener is run on.                               *)
(***************************************************************************)
MaxTop == 2

Node(name, fieldType, multiplicity, children) ==
    [name |-> name, fieldType |-> fieldType, multiplicity |-> multiplicity,
     children |-> children]

Leaf(name, fieldType) == Node(name, fieldType, "ABSENT", <<>>)

\* Two tags of TYPES_MAP, the absent tag, and a tag the flattener does not know.
LeafTypes == {"NUMBER", "None", "LIST"}

Multiplicities == {"ONE_TO_MANY", "ONE_TO_ONE", "ABSENT"}

Leaves ==
    {Leaf(n, t) : n \in {<<"b">>, <<"a", ".", "b">>}, t \in LeafTypes}
    \cup {Leaf(<<"a", " ", "b">>, "STRING")}

Inner == {Node(<<"a">>, "ENTITY", m, <<Leaf(<<"b">>, "NUMBER")>>) : m \in Multiplicities}

ChildLists ==
    { <<>>,
      <<Leaf(<<"b">>, "NUMBER")>>,
      <<Leaf(<<"b">>, "LIST")>>,
      <<Leaf(<<"a", " ", "b">>, "None")>>,
      <<Leaf(<<"b">>, "NUMBER"), Leaf(<<"a", ".", "b">>, "STRING")>> }
    \cup {<<e>> : e \in Inner}

Entities ==
    {Node(<<"a">>, "ENTITY", m, c) : m \in Multiplicities, c \in ChildLists}
    \cup {Node(<<"a", " ", "b">>, "ENTITY", "ONE_TO_ONE", <<Leaf(<<"b">>, "NUMBER")>>)}

TopNodes == Leaves \cup Entities

RECURSIVE ListsOfLen(_, _)
ListsOfLen(S, n) ==
    IF n = 0 THEN {<<>>} ELSE {<<x>> \o l : x \in S, l \in ListsOfLen(S, n - 1)}

SchemasUpTo(max) == {[children |-> c] : c \in UNION {ListsOfLen(TopNodes, n) : n \in 0..max}}

(***************************************************************************)
(* Decoded JSON values, json_dumps and Field.retrieve.                     *)
(*                                                                         *)
(* A value is a record: kind ("null", "int", "float", "str", "list" or     *)
(* "dict"), num (an int's value; a float's value in tenths, so that 25 is  *)
(* 2.5 and 20 is 2.0), text (a str's characters) and items (a dict's       *)
(* key/value pairs in insertion order).  Python's None is the null value.  *)
(***************************************************************************)
JNull == [kind |-> "null", num |-> 0, text |-> <<>>, items |-> <<>>]

JInt(n) == [kind |-> "int", num |-> n, text |-> <<>>, items |-> <<>>]

JFloat(tenths) == [kind |-> "float", num |-> tenths, text |-> <<>>, items |-> <<>>]

JStr(text) == [kind |-> "str", num |-> 0, text |-> text, items |-> <<>>]

JList == [kind |-> "list", num |-> 0, text |-> <<>>, items |-> <<>>]

JDict(items) == [kind |-> "dict", num |-> 0, text |-> <<>>, items |-> items]

\* isinstance(curr, dict)
IsDict(curr) == curr.kind = "dict"

\* p in curr
HasKey(curr, p) == \E i \in 1..Len(curr.items) : curr.items[i][1] = p

\* curr[p]
GetItem(curr, p) == curr.items[CHOOSE i \in 1..Len(curr.items) : curr.items[i][1] = p][2]

\* isinstance(curr, float)
IsFloat(curr) == curr.kind = "float"

DigitChars == <<"0", "1", "2", "3", "4", "5", "6", "7", "8", "9">>

RECURSIVE Digits(_)
Digits(n) == IF n < 10 THEN <<DigitChars[n + 1]>> ELSE Digits(n \div 10) \o <<DigitChars[(n % 10) + 1]>>

\* json_dumps of a decoded value: the JSON text, with ", " and ": " separators.
RECURSIVE json_dumps(_)
RECURSIVE DumpItems(_)
DumpItems(items) ==
    IF Len(items) = 0
    THEN <<>>
    ELSE <<"\"">> \o items[1][1] \o <<"\"", ":", " ">> \o json_dumps(items[1][2]).text
         \o (IF Len(items) = 1 THEN <<>> ELSE <<",", " ">> \o DumpItems(Tail(items)))

json_dumps(v) ==
    JStr(CASE v.kind = "null"  -> <<"n", "u", "l", "l">>
           [] v.kind = "int"   -> Digits(v.num)
           [] v.kind = "float" -> Digits(v.num \div 10) \o <<".">> \o Digits(v.num % 10)
           [] v.kind = "str"   -> <<"\"">> \o v.text \o <<"\"">>
           [] v.kind = "list"  -> <<"[", "]">>
           [] v.kind = "dict"  -> <<"{">> \o DumpItems(v.items) \o <<"}">>)

\* The for loop of Field.retrieve (iql.py 36-39): the value the path leads to,
\* and whether the loop returned None on the way.
RECURSIVE Walk(_, _)
Walk(curr, path) ==
    IF Len(path) = 0
    THEN [missing |-> FALSE, curr |-> curr]
    ELSE IF ~IsDict(curr) \/ ~HasKey(curr, Head(path))
    THEN [missing |-> TRUE, curr |-> JNull]
    ELSE Walk(GetItem(curr, Head(path)), Tail(path))

\* A variant that serializes the missing value of a collection-valued field.
retrieveSerializingMissing(field, row) ==
    LET w == Walk(row, field.path)
        t == IF ~w.missing /\ field.iql_type = "NUMBER" /\ IsFloat(w.curr)
             THEN "INFERRED_FLOAT"
             ELSE field.iql_type
    IN  [ret |-> IF t = "INFERRED_STRING" THEN json_dumps(w.curr) ELSE w.curr,
         iql_type |-> t, exc |-> "none"]

\* A variant of Field.retrieve whose type follows the value of the last row.
retrieveRetyping(field, row) ==
    LET w == Walk(row, field.path)
        t == IF field.iql_type \in {"NUMBER", "INFERRED_FLOAT"} /\ ~w.missing
             THEN (IF IsFloat(w.curr) THEN "INFERRED_FLOAT" ELSE "NUMBER")
             ELSE field.iql_type
    IN  [ret |-> IF w.missing THEN JNull
                 ELSE IF t = "INFERRED_STRING" THEN json_dumps(w.curr) ELSE w.curr,
         iql_type |-> t, exc |-> "none"]

\* Field.retrieve: the value returned, the Field's iql_type afterwards, and the
\* exception raised (the except clause logs and re-raises; nothing in the try
\* block raises on decoded JSON).
retrieve(field, row) ==
    LET w == Walk(row, field.path)
        t == IF field.iql_type = "NUMBER" /\ IsFloat(w.curr)
             THEN "INFERRED_FLOAT"
             ELSE field.iql_type
    IN  IF w.missing
        THEN [ret |-> JNull, iql_type |-> field.iql_type, exc |-> "none"]
        ELSE [ret |-> IF t = "INFERRED_STRING" THEN json_dumps(w.curr) ELSE w.curr,
              iql_type |-> t, exc |-> "none"]

\* Field.type
type(field) == TYPES_MAP[field.iql_type]

(***************************************************************************)
(* The Fields and rows Field.retrieve is run on.                           *)
(***************************************************************************)
Keys == {<<"a">>, <<"b">>}

Scalars == {JNull, JInt(1), JFloat(25), JFloat(20), JStr(<<"s">>), JList}

RECURSIVE ValuesOfDepth(_)
ValuesOfDepth(d) ==
    IF d = 0
    THEN Scalars
    ELSE Scalars \cup {JDict(<<>>)}
         \cup {JDict(<<<<k, v>>>>) : k \in Keys, v \in ValuesOfDepth(d - 1)}

PathsUpTo(max) == UNION {ListsOfLen(Keys, n) : n \in 1..max}

\* Field objects as Field.__init__ leaves them.
FieldsUpTo(max) ==
    {Field(path, t, NoNames).fields[1] : path \in PathsUpTo(max), t \in DOMAIN TYPES_MAP}

NoField == [path |-> <<>>, iql_type |-> "None", name |-> <<>>]

(***************************************************************************)
(* execute_iql_query, IQL.build_params and IQL.run_query.                  *)
(*                                                                         *)
(* A response of the remote service is a record: ok and status_code, the   *)
(* body text content, whether the body decodes as JSON, and the decoded    *)
(* body (its 'schema' tree and its 'data' list).                           *)
(***************************************************************************)
LimitKey == <<"L", "i", "m", "i", "t">>

\* build_params: the token, and default_limit when the metadata holds Limit.
build_params(metadata) ==
    IF LimitKey \in DOMAIN metadata
    THEN [token |-> "api_key", default_limit |-> metadata[LimitKey]]
    ELSE [token |-> "api_key", default_limit |-> <<>>]

\* "Query failed (%d): %s" % (resp.status_code, resp.content)
FailureMessage(resp) ==
    <<"Q", "u", "e", "r", "y", " ", "f", "a", "i", "l", "e", "d", " ", "(">>
    \o Digits(resp.status_code) \o <<")", ":", " ">> \o resp.content

\* execute_iql_query: what the call returns, a 2-tuple (None, message) on a
\* response that is not ok and the decoded body otherwise, or the exception
\* resp.json() raises.
execute_iql_query(resp) ==
    IF ~resp.ok
    THEN [exc |-> "none", kind |-> "tuple", error |-> JStr(FailureMessage(resp)),
          body |-> resp.body]
    ELSE IF ~resp.decodable
    THEN [exc |-> "JSONDecodeError", kind |-> "none", error |-> JNull, body |-> resp.body]
    ELSE [exc |-> "none", kind |-> "dict", error |-> JNull, body |-> resp.body]

\* flattened[field.name] = value, on a dict kept as its items in insertion order
PutItem(items, k, v) ==
    IF \E i \in 1..Len(items) : items[i][1] = k
    THEN [i \in 1..Len(items) |-> IF items[i][1] = k THEN <<k, v>> ELSE items[i]]
    ELSE Append(items, <<k, v>>)

\* The inner for loop of run_query (iql.py 172-175) over the fields from the
\* k-th on: the Fields afterwards and the flattened row.
RECURSIVE FlattenRow(_, _, _, _)
FlattenRow(fields, k, row, flattened) ==
    IF k > Len(fields)
    THEN [fields |-> fields, flattened |-> flattened]
    ELSE LET r == retrieve(fields[k], row)
         IN  FlattenRow([fields EXCEPT ![k].iql_type = r.iql_type], k + 1, row,
                        PutItem(flattened, fields[k].name, r.ret))

\* The columns list of run_query (iql.py 177-181).
Columns(fields) ==
    [k \in 1..Len(fields) |->
        [name |-> fields[k].name, friendly_name |-> fields[k].name, type |-> type(fields[k])]]

(***************************************************************************)
(* The query texts and responses run_query is run on.                      *)
(***************************************************************************)
KeyA == <<"a">>

KeyB == <<"b">>

RunTexts ==
    { <<"@", "x">>,
      Block(<<" ">> \o LimitKey \o <<":", " ", "5", " ">>) \o <<" ", "@", "x", ";">> }

RunSchemas ==
    { <<Leaf(KeyA, "NUMBER")>>,
      <<Leaf(KeyA, "STRING")>>,
      <<Leaf(KeyB, "None"), Leaf(KeyA, "NUMBER")>>,
      <<Node(KeyA, "ENTITY", "ONE_TO_ONE", <<Leaf(KeyB, "NUMBER")>>)>>,
      <<Node(KeyA, "ENTITY", "ONE_TO_MANY", <<Leaf(KeyB, "NUMBER")>>)>>,
      <<Leaf(KeyA, "NUMBER"), Leaf(KeyB, "LIST")>> }

RunRows ==
    { JDict(<<<<KeyA, JInt(1)>>>>),
      JDict(<<<<KeyA, JFloat(25)>>>>),
      JDict(<<<<KeyA, JFloat(20)>>>>),
      JDict(<<<<KeyA, JDict(<<<<KeyB, JFloat(25)>>>>)>>>>),
      JDict(<<<<KeyA, JDict(<<<<KeyB, JInt(1)>>>>)>>>>),
      JDict(<<>>),
      JNull }

NoBody == [schema |-> [children |-> <<>>], data |-> <<>>]

ResponsesUpTo(max) ==
    {[ok |-> TRUE, status_code |-> 200, content |-> <<>>, decodable |-> TRUE,
      body |-> [schema |-> [children |-> c], data |-> d]] :
        c \in RunSchemas, d \in UNION {ListsOfLen(RunRows, n) : n \in 0..max}}
    \cup {[ok |-> TRUE, status_code |-> 200, content |-> <<"<">>, decodable |-> FALSE,
           body |-> NoBody]}
    \cup {[ok |-> FALSE, status_code |-> 500, content |-> <<"n", "o">>, decodable |-> FALSE,
           body |-> NoBody]}

NoReturn == [payload |-> [columns |-> <<>>, rows |-> <<>>], error |-> JNull]

(***************************************************************************)
(* IQL.get_schema.                                                         *)
(*                                                                         *)
(* A future is a record: done, and the outcome of its task once done (what *)
(* execute_iql_query returned or raised).  The executor starts the tasks   *)
(* in submission order on max_workers threads.  as_completed yields first  *)
(* the futures that were finished when it was called, iterating a set of   *)
(* them, and then the others in the order in which they finish.            *)
(***************************************************************************)
max_workers == 10

NoOutcome == [exc |-> "none", kind |-> "none", error |-> JNull, body |-> NoBody]

\* [f.name for f in fields]
FieldNames(fields) == [k \in 1..Len(fields) |-> fields[k].name]

\* A variant of the loop body that passes over a probe that failed.
ConsumeResultSkippingFailures(ret, ec, got) ==
    LET flat == flatten_schema(got.body.schema)
    IN  IF got.exc # "none"
        THEN [exc |-> got.exc, ret |-> ret]
        ELSE IF got.kind = "tuple"
        THEN [exc |-> "none", ret |-> ret]
        ELSE IF flat.exc # "none"
        THEN [exc |-> flat.exc, ret |-> ret]
        ELSE [exc |-> "none",
              ret |-> Append(ret, [name |-> ec, columns |-> FieldNames(flat.fields)])]

\* A variant of the loop body that puts the new entry first.
ConsumeResultPrepending(ret, ec, got) ==
    LET flat == flatten_schema(got.body.schema)
    IN  IF got.exc # "none"
        THEN [exc |-> got.exc, ret |-> ret]
        ELSE IF got.kind = "tuple"
        THEN [exc |-> "TypeError", ret |-> ret]
        ELSE IF flat.exc # "none"
        THEN [exc |-> flat.exc, ret |-> ret]
        ELSE [exc |-> "none",
              ret |-> <<[name |-> ec, columns |-> FieldNames(flat.fields)]>> \o ret]

\* The body of the loop over as_completed (iql.py 198-201) for the future of
\* dataset ec whose task ended with got: the exception raised and ret afterwards.
\* future.result() raises what the task raised; data['schema'] raises TypeError
\* on the tuple of a failed probe.
ConsumeResult(ret, ec, got) ==
    LET flat == flatten_schema(got.body.schema)
    IN  IF got.exc # "none"
        THEN [exc |-> got.exc, ret |-> ret]
        ELSE IF got.kind = "tuple"
        THEN [exc |-> "TypeError", ret |-> ret]
        ELSE IF flat.exc # "none"
        THEN [exc |-> flat.exc, ret |-> ret]
        ELSE [exc |-> "none",
              ret |-> Append(ret, [name |-> ec, columns |-> FieldNames(flat.fields)])]

\* The elements of a sequence.
Range(seq) == {seq[i] : i \in 1..Len(seq)}

(***************************************************************************)
(* The listings and probe responses get_schema is run on.                  *)
(***************************************************************************)
DatasetNames == [i \in 1..MaxDatasets |-> <<"d">> \o Digits(i)]

Listings == {SubSeq(DatasetNames, 1, n) : n \in 0..MaxDatasets}

OkResponse(children) ==
    [ok |-> TRUE, status_code |-> 200, content |-> <<>>, decodable |-> TRUE,
     body |-> [schema |-> [children |-> children], data |-> <<>>]]

FailedResponse ==
    [ok |-> FALSE, status_code |-> 500, content |-> <<"n", "o">>, decodable |-> FALSE,
     body |-> NoBody]

ProbeResponses ==
    { OkResponse(<<Leaf(KeyA, "NUMBER")>>),
      OkResponse(<<Node(KeyA, "ENTITY", "ONE_TO_ONE", <<Leaf(KeyB, "STRING")>>),
                   Leaf(KeyB, "None")>>),
      OkResponse(<<Leaf(KeyB, "LIST")>>),
      FailedResponse }

(***************************************************************************)
(* The entry points: each specification runs one of them, the state of the *)
(* others staying as it is before any call.                                *)
(***************************************************************************)
\* The parser before any call of it.
ParseIdle ==
    /\ string = <<>>
    /\ p_pc = "idle"
    /\ p_metadata = EmptyDict
    /\ p_query = <<>>

\* The flattener before any call of it.
FlattenIdle ==
    /\ schema = [children |-> <<>>]
    /\ f_pc = "idle"
    /\ f_fields = <<>>
    /\ f_exc = "none"

\* The resolver before any call of it.
RetrieveIdle ==
    /\ self = NoField
    /\ data = JNull
    /\ v_pc = "idle"
    /\ v_ret = JNull
    /\ v_exc = "none"

\* run_query before any call of it.
RunIdle ==
    /\ r_text = <<>>
    /\ r_pc = "idle"
    /\ r_request = [params |-> build_params(EmptyDict), query |-> <<>>]
    /\ r_resp = [ok |-> TRUE, status_code |-> 200, content |-> <<>>, decodable |-> TRUE,
                 body |-> NoBody]
    /\ r_fields = <<>>
    /\ r_rows = <<>>
    /\ r_ret = NoReturn
    /\ r_exc = "none"

\* get_schema before any call of it.
SchemaIdle ==
    /\ g_pc = "idle"
    /\ g_ecs = <<>>
    /\ g_futures = <<>>
    /\ g_completed = <<>>
    /\ g_early = {}
    /\ g_taken = <<>>
    /\ g_ret = <<>>
    /\ g_exc = "none"

InitParse ==
    /\ string \in QueriesUpTo(MaxStrLen)
    /\ p_pc = "start"
    /\ p_metadata = EmptyDict
    /\ p_query = <<>>
    /\ FlattenIdle
    /\ RetrieveIdle
    /\ RunIdle
    /\ SchemaIdle

ParseAndRemoveComments ==
    /\ p_pc = "start"
    /\ LET r == parse_and_remove_comments(string)
       IN  /\ p_metadata' = r.metadata
           /\ p_query' = r.query
    /\ p_pc' = "done"
    /\ UNCHANGED string
    /\ UNCHANGED <<flattenVars, retrieveVars, runVars, schemaVars>>

NextParse == ParseAndRemoveComments

SpecParse == InitParse /\ [][NextParse]_vars

InitFlatten ==
    /\ schema \in SchemasUpTo(MaxTop)
    /\ f_pc = "start"
    /\ f_fields = <<>>
    /\ f_exc = "none"
    /\ ParseIdle
    /\ RetrieveIdle
    /\ RunIdle
    /\ SchemaIdle

FlattenSchema ==
    /\ f_pc = "start"
    /\ LET r == flatten_schema(schema)
       IN  /\ f_fields' = r.fields
           /\ f_exc' = r.exc
    /\ f_pc' = "done"
    /\ UNCHANGED schema
    /\ UNCHANGED <<parseVars, retrieveVars, runVars, schemaVars>>

NextFlatten == FlattenSchema

SpecFlatten == InitFlatten /\ [][NextFlatten]_vars

InitRetrieve ==
    /\ self \in FieldsUpTo(MaxDepth)
    /\ data \in ValuesOfDepth(MaxDepth)
    /\ v_pc = "start"
    /\ v_ret = JNull
    /\ v_exc = "none"
    /\ ParseIdle
    /\ FlattenIdle
    /\ RunIdle
    /\ SchemaIdle

Retrieve ==
    /\ v_pc = "start"
    /\ LET r == retrieve(self, data)
       IN  /\ v_ret' = r.ret
           /\ v_exc' = r.exc
           /\ self' = [self EXCEPT !.iql_type = r.iql_type]
    /\ v_pc' = "done"
    /\ UNCHANGED data
    /\ UNCHANGED <<parseVars, flattenVars, runVars, schemaVars>>

NextRetrieve == Retrieve

SpecRetrieve == InitRetrieve /\ [][NextRetrieve]_vars

InitRun ==
    /\ r_text \in RunTexts
    /\ r_pc = "start"
    /\ r_request = [params |-> build_params(EmptyDict), query |-> <<>>]
    /\ r_resp = [ok |-> TRUE, status_code |-> 200, content |-> <<>>, decodable |-> TRUE,
                 body |-> NoBody]
    /\ r_fields = <<>>
    /\ r_rows = <<>>
    /\ r_ret = NoReturn
    /\ r_exc = "none"
    /\ ParseIdle
    /\ FlattenIdle
    /\ RetrieveIdle
    /\ SchemaIdle

\* run_query, lines 165-168: the comments are parsed, the query is posted, the
\* response arrives, data['schema'] is read and flattened.
RunQueryExecute ==
    /\ r_pc = "start"
    /\ \E resp \in ResponsesUpTo(MaxRows) :
          LET parsed == parse_and_remove_comments(r_text)
              got    == execute_iql_query(resp)
              flat   == flatten_schema(got.body.schema)
          IN  /\ r_request' = [params |-> build_params(parsed.metadata),
                               query |-> parsed.query]
              /\ r_resp' = resp
              /\ IF got.exc # "none"
                 THEN /\ r_pc' = "raised"
                      /\ r_exc' = got.exc
                      /\ UNCHANGED r_fields
                 ELSE IF got.kind = "tuple"
                 THEN \* data['schema'] on a tuple
                      /\ r_pc' = "raised"
                      /\ r_exc' = "TypeError"
                      /\ UNCHANGED r_fields
                 ELSE IF flat.exc # "none"
                 THEN /\ r_pc' = "raised"
                      /\ r_exc' = flat.exc
                      /\ UNCHANGED r_fields
                 ELSE /\ r_pc' = "rows"
                      /\ r_exc' = "none"
                      /\ r_fields' = flat.fields
    /\ UNCHANGED <<r_text, r_rows, r_ret>>
    /\ UNCHANGED <<parseVars, flattenVars, retrieveVars, schemaVars>>

\* run_query, lines 171-175: one pass of the loop over data['data'].
RunQueryRow ==
    /\ r_pc = "rows"
    /\ Len(r_rows) < Len(r_resp.body.data)
    /\ LET row == r_resp.body.data[Len(r_rows) + 1]
           r   == FlattenRow(r_fields, 1, row, <<>>)
       IN  /\ r_fields' = r.fields
           /\ r_rows' = Append(r_rows, r.flattened)
    /\ UNCHANGED <<r_text, r_pc, r_request, r_resp, r_ret, r_exc>>
    /\ UNCHANGED <<parseVars, flattenVars, retrieveVars, schemaVars>>

\* run_query, lines 177-183: the columns are built and the tuple is returned
\* (the payload is the object handed to json_dumps).
RunQueryReturn ==
    /\ r_pc = "rows"
    /\ Len(r_rows) = Len(r_resp.body.data)
    /\ r_ret' = [payload |-> [columns |-> Columns(r_fields), rows |-> r_rows],
                 error |-> JNull]
    /\ r_pc' = "returned"
    /\ UNCHANGED <<r_text, r_request, r_resp, r_fields, r_rows, r_exc>>
    /\ UNCHANGED <<parseVars, flattenVars, retrieveVars, schemaVars>>

NextRun == RunQueryExecute \/ RunQueryRow \/ RunQueryReturn

SpecRun == InitRun /\ [][NextRun]_vars

InitSchema ==
    /\ g_pc = "start"
    /\ g_ecs = <<>>
    /\ g_futures = <<>>
    /\ g_completed = <<>>
    /\ g_early = {}
    /\ g_taken = <<>>
    /\ g_ret = <<>>
    /\ g_exc = "none"
    /\ ParseIdle
    /\ FlattenIdle
    /\ RetrieveIdle
    /\ RunIdle

\* get_schema, line 186: the listing query; a listing that failed is a tuple,
\* and ['data'] on it raises TypeError.
GetListing ==
    /\ g_pc = "start"
    /\ \/ \E ecs \in Listings :
             /\ g_ecs' = ecs
             /\ g_pc' = "submit"
             /\ UNCHANGED g_exc
       \/ /\ execute_iql_query(FailedResponse).kind = "tuple"
          /\ g_pc' = "raised"
          /\ g_exc' = "TypeError"
          /\ UNCHANGED g_ecs
    /\ UNCHANGED <<g_futures, g_completed, g_early, g_taken, g_ret>>
    /\ UNCHANGED <<parseVars, flattenVars, retrieveVars, runVars>>

\* get_schema, line 196: executor.submit for the next dataset.
Submit ==
    /\ g_pc = "submit"
    /\ Len(g_futures) < Len(g_ecs)
    /\ g_futures' = Append(g_futures, [done |-> FALSE, outcome |-> NoOutcome])
    /\ UNCHANGED <<g_pc, g_ecs, g_completed, g_early, g_taken, g_ret, g_exc>>
    /\ UNCHANGED <<parseVars, flattenVars, retrieveVars, runVars>>

\* A worker thread ends the task of future i (iql.py 191-192): the tasks start
\* in submission order, at most max_workers of them running at a time.
ProbeComplete(i) ==
    /\ ~g_futures[i].done
    /\ Cardinality({j \in 1..(i - 1) : ~g_futures[j].done}) < max_workers
    /\ \E resp \in ProbeResponses :
          g_futures' = [g_futures EXCEPT ![i] =
                           [done |-> TRUE, outcome |-> execute_iql_query(resp)]]
    /\ g_completed' = Append(g_completed, i)
    /\ UNCHANGED <<g_pc, g_ecs, g_early, g_taken, g_ret, g_exc>>
    /\ UNCHANGED <<parseVars, flattenVars, retrieveVars, runVars>>

\* get_schema, line 197: the call of as_completed.
AsCompleted ==
    /\ g_pc = "submit"
    /\ Len(g_futures) = Len(g_ecs)
    /\ g_early' = Range(g_completed)
    /\ g_pc' = "iterate"
    /\ UNCHANGED <<g_ecs, g_futures, g_completed, g_taken, g_ret, g_exc>>
    /\ UNCHANGED <<parseVars, flattenVars, retrieveVars, runVars>>

\* The futures as_completed may yield next.
Yieldable ==
    LET early == g_early \ Range(g_taken)
        late  == {k \in 1..Len(g_completed) : g_completed[k] \notin Range(g_taken)}
    IN  IF early # {}
        THEN early
        ELSE IF late # {} THEN {g_completed[Min(late)]} ELSE {}

\* get_schema, lines 197-201: as_completed yields a future and the loop body
\* runs on it.
Consume ==
    /\ g_pc = "iterate"
    /\ \E i \in Yieldable :
          LET r == ConsumeResult(g_ret, g_ecs[i], g_futures[i].outcome)
          IN  /\ g_taken' = Append(g_taken, i)
              /\ g_ret' = r.ret
              /\ g_exc' = r.exc
              /\ g_pc' = IF r.exc # "none" THEN "shutdown" ELSE "iterate"
    /\ UNCHANGED <<g_ecs, g_futures, g_completed, g_early>>
    /\ UNCHANGED <<parseVars, flattenVars, retrieveVars, runVars>>

\* get_schema, lines 195-203: the loop is over, the with block shuts the
\* executor down, and ret is returned.
Return ==
    /\ g_pc = "iterate"
    /\ Len(g_taken) = Len(g_futures)
    /\ g_pc' = "returned"
    /\ UNCHANGED <<g_ecs, g_futures, g_completed, g_early, g_taken, g_ret, g_exc>>
    /\ UNCHANGED <<parseVars, flattenVars, retrieveVars, runVars>>

\* get_schema, line 195: an exception leaves the with block, whose exit waits
\* for every task (shutdown(wait=True)) before the exception goes on.
Propagate ==
    /\ g_pc = "shutdown"
    /\ \A i \in 1..Len(g_futures) : g_futures[i].done
    /\ g_pc' = "raised"
    /\ UNCHANGED <<g_ecs, g_futures, g_completed, g_early, g_taken, g_ret, g_exc>>
    /\ UNCHANGED <<parseVars, flattenVars, retrieveVars, runVars>>

NextSchema ==
    \/ GetListing
    \/ Submit
    \/ \E i \in 1..Len(g_futures) : ProbeComplete(i)
    \/ AsCompleted
    \/ Consume
    \/ Return
    \/ Propagate

SpecSchema == InitSchema /\ [][NextSchema]_vars

(***************************************************************************)
(* What the specification says of the schema flattener.                    *)
(***************************************************************************)
\* The positions of the nodes of a forest, each a sequence of child indices.
RECURSIVE Positions(_)
Positions(nodes) ==
    UNION {{<<i>>} \cup {<<i>> \o q : q \in Positions(nodes[i].children)} :
              i \in 1..Len(nodes)}

RECURSIVE NodeAt(_, _)
NodeAt(nodes, pos) ==
    IF Len(pos) = 1
    THEN nodes[pos[1]]
    ELSE NodeAt(nodes[pos[1]].children, Tail(pos))

\* The node names from the root to the node at pos.
NamesTo(nodes, pos) == [k \in 1..Len(pos) |-> NodeAt(nodes, SubSeq(pos, 1, k)).name]

\* pos comes before other in depth-first document order.
Before(pos, other) ==
    \E k \in 1..Len(other) :
        /\ \A j \in 1..(k - 1) : j <= Len(pos) /\ pos[j] = other[j]
        /\ \/ Len(pos) = k - 1
           \/ Len(pos) >= k /\ pos[k] < other[k]

IsEntity(node) == node.fieldType = "ENTITY"

IsCollection(node) == IsEntity(node) /\ node.multiplicity = "ONE_TO_MANY"

\* The nodes that get a descriptor: the nodes that are no ENTITY and the
\* one-to-many ENTITY nodes, beneath ENTITY nodes that are not one-to-many only.
Described(nodes) ==
    {pos \in Positions(nodes) :
        /\ ~IsEntity(NodeAt(nodes, pos)) \/ IsCollection(NodeAt(nodes, pos))
        /\ \A k \in 1..(Len(pos) - 1) :
              LET up == NodeAt(nodes, SubSeq(pos, 1, k))
              IN  IsEntity(up) /\ ~IsCollection(up)}

DescribedType(node) == IF IsCollection(node) THEN "INFERRED_STRING" ELSE node.fieldType

\* fields holds one descriptor per described node, in document order, each with
\* the node's path and type.
OnePerDescribedNode(nodes, fields) ==
    LET D == Described(nodes)
    IN  /\ Len(fields) = Cardinality(D)
        /\ \A pos \in D :
              LET k == 1 + Cardinality({q \in D : Before(q, pos)})
              IN  /\ fields[k].path = NamesTo(nodes, pos)
                  /\ fields[k].iql_type = DescribedType(NodeAt(nodes, pos))

\* Every node carries a tag of TYPES_MAP (or none), or is an ENTITY.
KnownTypes(nodes) ==
    \A pos \in Positions(nodes) :
        LET n == NodeAt(nodes, pos) IN IsEntity(n) \/ n.fieldType \in DOMAIN TYPES_MAP

\* Every ENTITY node carries a multiplicity tag.
EntitiesTagged(nodes) ==
    \A pos \in Positions(nodes) :
        LET n == NodeAt(nodes, pos) IN IsEntity(n) => n.multiplicity # "ABSENT"

\* C1: the descriptors of one flatten_schema call have pairwise distinct display
\* names: two descriptors of distinct paths never carry the same name.
C1_DisplayNamesDistinct ==
    (f_pc = "done" /\ f_exc = "none") =>
        \A i, j \in 1..Len(f_fields) :
            f_fields[i].path # f_fields[j].path => f_fields[i].name # f_fields[j].name

\* C7: for a schema tree of scalar, untyped and ENTITY nodes in which every
\* ENTITY node carries a multiplicity tag, flatten_schema returns, in document
\* order, exactly one descriptor per scalar or untyped node and one descriptor
\* typed INFERRED_STRING per one-to-many ENTITY node, none beneath a one-to-many
\* ENTITY and none for another ENTITY, each with the node names from the root as
\* its path.
C7_OneDescriptorPerNode ==
    (/\ f_pc = "done"
     /\ KnownTypes(schema.children)
     /\ EntitiesTagged(schema.children))
    => (f_exc = "none" /\ OnePerDescribedNode(schema.children, f_fields))

\* A tree with a one-to-many ENTITY that has a child, a nested ENTITY followed by
\* a leaf, and an untyped node has been flattened.
C7_Witness ==
    /\ f_pc = "done"
    /\ f_exc = "none"
    /\ KnownTypes(schema.children)
    /\ EntitiesTagged(schema.children)
    /\ Len(schema.children) = 2
    /\ schema.children[1].multiplicity = "ONE_TO_ONE"
    /\ Len(schema.children[1].children) = 1
    /\ IsCollection(schema.children[1].children[1])
    /\ Len(schema.children[1].children[1].children) = 1
    /\ schema.children[2].fieldType = "None"
    /\ Len(f_fields) = 2
    /\ f_fields[1].iql_type = "INFERRED_STRING"

\* C8: an ENTITY node whose multiplicity is not one-to-many, the node without
\* any multiplicity tag included, is recursed into without raising: for a tree
\* of scalar, untyped and ENTITY nodes the call returns the descriptors of the
\* children in the node's place.
C8_UntaggedEntityRecursed ==
    (f_pc = "done" /\ KnownTypes(schema.children))
    => (f_exc = "none" /\ OnePerDescribedNode(schema.children, f_fields))

(***************************************************************************)
(* What the specification says of the field resolver and of run_query.     *)
(***************************************************************************)
\* Every segment of path is a key of the keyed structure reached before it.
RECURSIVE Resolves(_, _)
Resolves(row, path) ==
    \/ Len(path) = 0
    \/ /\ IsDict(row)
       /\ HasKey(row, Head(path))
       /\ Resolves(GetItem(row, Head(path)), Tail(path))

RECURSIVE ValueAt(_, _)
ValueAt(row, path) ==
    IF Len(path) = 0 THEN row ELSE ValueAt(GetItem(row, Head(path)), Tail(path))

\* The path leads to a numeric value that is no integer.
NonIntegralAt(row, path) ==
    /\ Resolves(row, path)
    /\ ValueAt(row, path).kind = "float"
    /\ ValueAt(row, path).num % 10 # 0

\* C2: when the remote service answers with a non-success status, run_query
\* raises nothing: it returns a tuple whose error slot holds a message carrying
\* the status code and the body text.
C2_TransportFailureReturned ==
    (r_pc \in {"returned", "raised"} /\ ~r_resp.ok) =>
        /\ r_pc = "returned"
        /\ r_ret.error = JStr(FailureMessage(r_resp))

\* C4: a field declared NUMBER that retrieve has seen with a non-integral
\* numeric value in some row of the pass is typed INFERRED_FLOAT from then on,
\* whatever the rows before and after hold, so that run_query reports the column
\* as float; a field declared with another type keeps it.
C4_RefinementKept ==
    r_pc \in {"rows", "returned"} =>
        LET declared == flatten_schema(r_resp.body.schema).fields
        IN  \A k \in 1..Len(r_fields) :
                /\ (/\ declared[k].iql_type = "NUMBER"
                    /\ \E j \in 1..Len(r_rows) :
                          NonIntegralAt(r_resp.body.data[j], r_fields[k].path))
                   => /\ r_fields[k].iql_type = "INFERRED_FLOAT"
                      /\ r_pc = "returned" => r_ret.payload.columns[k].type = "TYPE_FLOAT"
                /\ declared[k].iql_type # "NUMBER"
                   => r_fields[k].iql_type = declared[k].iql_type

\* run_query has returned for a NUMBER field whose rows held 1, then 2.5, then 1.
C4_Witness ==
    /\ r_pc = "returned"
    /\ r_resp.body.schema.children = <<Leaf(KeyA, "NUMBER")>>
    /\ r_resp.body.data = <<JDict(<<<<KeyA, JInt(1)>>>>), JDict(<<<<KeyA, JFloat(25)>>>>),
                            JDict(<<<<KeyA, JInt(1)>>>>)>>
    /\ r_ret.payload.columns[1].type = "TYPE_FLOAT"

\* C5: when, at some depth along the path of a Field of any declared type, the
\* current value is not a keyed structure or lacks the segment key, retrieve
\* returns null, raises nothing and leaves the Field as it was.
C5_MissingPathGivesNull ==
    [][(v_pc = "start" /\ ~Resolves(data, self.path)) =>
          (v_ret' = JNull /\ v_exc' = "none" /\ self' = self)]_vars

\* retrieve has returned for an INFERRED_STRING Field whose path breaks at its
\* second segment, on a value that is not a keyed structure.
C5_Witness ==
    /\ v_pc = "done"
    /\ self.iql_type = "INFERRED_STRING"
    /\ Len(self.path) = 2
    /\ Resolves(data, SubSeq(self.path, 1, 1))
    /\ ~IsDict(ValueAt(data, SubSeq(self.path, 1, 1)))
    /\ v_ret = JNull

(***************************************************************************)
(* What the specification says of schema discovery.                        *)
(***************************************************************************)
\* The probe of future i ended with a non-success status.
ProbeFailed(i) == g_futures[i].done /\ g_futures[i].outcome.kind = "tuple"

\* The probe of future i ended with a decoded response.
ProbeSucceeded(i) ==
    g_futures[i].done /\ g_futures[i].outcome.exc = "none" /\ g_futures[i].outcome.kind = "dict"

\* The dataset of the k-th catalog entry, as a position of the listing.
DatasetOf(k) == CHOOSE i \in 1..Len(g_ecs) : g_ecs[i] = g_ret[k].name

\* The place of future i in the completion order.
CompletedAt(i) == CHOOSE k \in 1..Len(g_completed) : g_completed[k] = i

\* ret holds one entry per dataset of the listing, each with the display names
\* of the flattening of the response to the probe of that dataset.
OneEntryPerDataset ==
    /\ Len(g_ret) = Len(g_ecs)
    /\ \A i \in 1..Len(g_ecs) :
          /\ Cardinality({k \in 1..Len(g_ret) : g_ret[k].name = g_ecs[i]}) = 1
          /\ \A k \in 1..Len(g_ret) :
                g_ret[k].name = g_ecs[i] =>
                    g_ret[k].columns =
                        FieldNames(flatten_schema(g_futures[i].outcome.body.schema).fields)

\* C3: when the probe of some dataset has failed, get_schema does not return a
\* catalog: the call that ends, ends raising.
C3_NoPartialCatalog ==
    \A i \in 1..Len(g_futures) :
        ProbeFailed(i) =>
            /\ g_pc # "returned"
            /\ g_pc \in {"returned", "raised"} => (g_pc = "raised" /\ g_exc # "none")

\* get_schema has raised with three datasets listed, one of whose probes failed
\* after the entries of the two others had been recorded.
C3_Witness ==
    /\ g_pc = "raised"
    /\ Len(g_ecs) = 3
    /\ \E i \in 1..Len(g_futures) : ProbeFailed(i)
    /\ Len(g_ret) = 2

\* C9 as stated: when every probe has succeeded, the catalog returned holds
\* exactly one entry per dataset of the listing, each with the columns of its
\* own probe response, and the k-th entry is that of the k-th probe to complete.
C9_CompletionOrder ==
    (g_pc = "returned" /\ \A i \in 1..Len(g_futures) : ProbeSucceeded(i)) =>
        /\ OneEntryPerDataset
        /\ \A k \in 1..Len(g_ret) : g_ret[k].name = g_ecs[g_completed[k]]

\* C9 amended: when every probe has succeeded, the catalog returned holds
\* exactly one entry per dataset of the listing, each with the columns of its
\* own probe response; the entries of the probes that had completed when the
\* result loop began come first, in any order, and the entries of the other
\* probes follow in the order in which those probes completed.
C9_YieldOrder ==
    (g_pc = "returned" /\ \A i \in 1..Len(g_futures) : ProbeSucceeded(i)) =>
        /\ OneEntryPerDataset
        /\ \A k \in 1..Len(g_ret) : (k <= Cardinality(g_early)) = (DatasetOf(k) \in g_early)
        /\ \A k, l \in (Cardinality(g_early) + 1)..Len(g_ret) :
              k < l => CompletedAt(DatasetOf(k)) < CompletedAt(DatasetOf(l))

\* get_schema has returned a catalog of three datasets whose probes all
\* succeeded, in an order that is neither that of submission nor that of
\* completion.
C9_Witness ==
    /\ g_pc = "returned"
    /\ Len(g_ecs) = 3
    /\ \A i \in 1..Len(g_futures) : ProbeSucceeded(i)
    /\ Cardinality(g_early) = 2
    /\ g_completed = <<2, 1, 3>>
    /\ g_taken = <<1, 2, 3>>
    /\ g_ret[1].columns # g_ret[2].columns

(***************************************************************************)
(* What the specification says of the comment metadata parser.             *)
(***************************************************************************)
Max(S) == CHOOSE x \in S : \A y \in S : x >= y

StartsWith(s, pat) == Len(s) >= Len(pat) /\ SubSeq(s, 1, Len(pat)) = pat

EndsWith(s, pat) == Len(s) >= Len(pat) /\ SubSeq(s, Len(s) - Len(pat) + 1, Len(s)) = pat

Occurrences(s, pat) ==
    {i \in 0..(Len(s) - Len(pat)) : SubSeq(s, i + 1, i + Len(pat)) = pat}

\* The text after the last closing token, or all of s when it has none.
AfterLastComment(s) ==
    IF Occurrences(s, CloseToken) = {}
    THEN s
    ELSE SubSeq(s, Max(Occurrences(s, CloseToken)) + 3, Len(s))

\* A query read as leading comment blocks and a body: a block opens with the
\* opening token, and its interior runs to the next closing token after it.
RECURSIVE LeadingBlocks(_)
LeadingBlocks(s) ==
    LET t      == PyLStrip(s, Whitespace)
        after  == SubSeq(t, 3, Len(t))
        closes == Occurrences(after, CloseToken)
    IN  IF StartsWith(t, OpenToken) /\ closes # {}
        THEN LET j == Min(closes)
                 r == LeadingBlocks(SubSeq(after, j + 3, Len(after)))
             IN  [interiors |-> <<SubSeq(after, 1, j)>> \o r.interiors, body |-> r.body]
        ELSE [interiors |-> <<>>, body |-> s]

\* The comma-separated items of all the interiors, in order.
RECURSIVE ItemsOf(_)
ItemsOf(interiors) ==
    IF Len(interiors) = 0
    THEN <<>>
    ELSE PySplit(Head(interiors), ",") \o ItemsOf(Tail(interiors))

KeyOf(item) == PyStrip(SubSeq(item, 1, PyFind(item, <<":">>)))

ValueOf(item) == PyStrip(SubSeq(item, PyFind(item, <<":">>) + 2, Len(item)))

\* Each item holding ':' maps its key to its value, the last item of a key winning.
MetadataOf(interiors) ==
    LET items == ItemsOf(interiors)
        keyed == {i \in 1..Len(items) : PyContains(items[i], ":")}
    IN  [k \in {KeyOf(items[i]) : i \in keyed} |->
            ValueOf(items[Max({i \in keyed : KeyOf(items[i]) = k})])]

\* C6: for a query made of leading comment blocks followed by a body, the
\* metadata returned maps, for every item of every block interior that holds
\* ':', the trimmed key to the trimmed value (later items overwriting), and the
\* clean query returned is the trimmed body.  Stated for the bodies that hold no
\* closing token and end in no terminator, where only the blocks decide it.
C6_MetadataFromInteriors ==
    LET r == LeadingBlocks(string)
        b == PyStrip(r.body)
    IN  (/\ p_pc = "done"
         /\ Occurrences(r.body, CloseToken) = {}
         /\ ~EndsWith(b, <<";">>))
        => (p_metadata = MetadataOf(r.interiors) /\ p_query = b)

\* C10 as stated: the text after the last comment is returned trimmed, less
\* exactly one trailing terminator if it has one; a query with no closing token
\* keeps its unterminated comment and yields empty metadata.
C10_OneTerminatorRemoved ==
    LET t == PyStrip(AfterLastComment(string))
    IN  p_pc = "done" =>
            /\ p_query = IF EndsWith(t, <<";">>) THEN SubSeq(t, 1, Len(t) - 1) ELSE t
            /\ (Occurrences(string, CloseToken) = {} => p_metadata = EmptyDict)

\* C10 amended: the text after the last comment is returned trimmed, less
\* every trailing terminator (the result is the longest prefix of the trimmed
\* text that ends in no terminator); a query with no closing token keeps its
\* unterminated comment and yields empty metadata.
C10_AllTerminatorsRemoved ==
    LET t == PyStrip(AfterLastComment(string))
    IN  p_pc = "done" =>
            /\ Len(p_query) <= Len(t)
            /\ p_query = SubSeq(t, 1, Len(p_query))
            /\ \A i \in (Len(p_query) + 1)..Len(t) : t[i] = ";"
            /\ ~EndsWith(p_query, <<";">>)
            /\ (Occurrences(string, CloseToken) = {} => p_metadata = EmptyDict)

\* An unterminated comment whose text ends in two terminators has been parsed.
C10_Witness ==
    /\ p_pc = "done"
    /\ StartsWith(string, OpenToken)
    /\ Occurrences(string, CloseToken) = {}
    /\ EndsWith(string, <<";", ";">>)
    /\ p_query = OpenToken

=============================================================================
